---- MODULE Spec2Model ----
(***************************************************************************)
(* Web3ApiClient (packages/js/client/src/Web3ApiClient.ts): the per-Uri    *)
(* Api cache, loadWeb3Api, invoke and query, as a state machine over the   *)
(* client's asynchronous tasks.  JavaScript runs each synchronous block    *)
(* to its next await atomically; every action below is one such block.     *)
(***************************************************************************)
EXTENDS Integers, Sequences, FiniteSets, TLC

\* ---------------------------------------------------------------- bounds
MaxTasks == 2
MaxOps == 3
MaxJoin == 2
MaxRedirects == 2
MaxClients == 2
MaxWalks == 1

\* ---------------------------------------------------------------- inputs
Uris == {"w3://x", "w3://y"}
Names == {"a", "a_1"}
Values == {"V1", "V2"}
Undefined == "undefined"
NoApi == 0

Max(a, b) == IF a > b THEN a ELSE b

TaskIds == 1..Max(MaxTasks, Max(MaxOps, MaxJoin))

VARIABLES _apiCache, tasks, qry, resolveStarted,
          configs, clients, explicit, impl, walk

\* the config objects, the clients built from them, the caller's redirects
\* and its last getImplementations call; the resolutions under way
envVars == <<configs, clients, explicit, impl, walk>>

vars == <<_apiCache, tasks, qry, resolveStarted, envVars>>

SeqsUpTo(S, n) == UNION {[1..k -> S] : k \in 1..n}

\* Map.set(key, value) on a map held as a function over its keys
MapSet(m, k, v) == [x \in (DOMAIN m) \cup {k} |-> IF x = k THEN v ELSE m[x]]

\* counts[name] after the reduce has consumed the first i names
RECURSIVE counts(_, _, _)
counts(names, i, name) ==
  IF i = 0 THEN 0
  ELSE counts(names, i - 1, name) + (IF names[i] = name THEN 1 ELSE 0)

\* `${name}_${count - 1}` when count > 1, otherwise name
uniqBad(name, count) ==
  IF count > 1 THEN name \o "_" \o ToString(count) ELSE name

uniq(name, count) ==
  IF count > 1 THEN name \o "_" \o ToString(count - 1) ELSE name

makeRepeatedUnique(names) ==
  [i \in 1..Len(names) |-> uniq(names[i], counts(names, i, names[i]))]

\* for (i...) data[methods[i]] = resultDatas[i], after the first n iterations
RECURSIVE buildData(_, _, _)
buildData(methods, resultDatas, n) ==
  IF n = 0 THEN <<>>
  ELSE MapSet(buildData(methods, resultDatas, n - 1), methods[n], resultDatas[n])

\* errors.push(invocation.result.error) for every invocation with an error
RECURSIVE collectErrors(_, _)
collectErrors(results, n) ==
  IF n = 0 THEN <<>>
  ELSE IF results[n].error # Undefined
       THEN Append(collectErrors(results, n - 1), results[n].error)
       ELSE collectErrors(results, n - 1)

\* errors: errors.length === 0 ? undefined : errors
errorsFieldBad(errors) == [defined |-> TRUE, list |-> errors]

errorsField(errors) ==
  IF Len(errors) = 0 THEN [defined |-> FALSE, list |-> <<>>]
  ELSE [defined |-> TRUE, list |-> errors]

\* ------------------------------------------------------------- tasks
NoResult == [data |-> Undefined, error |-> Undefined]

FreeTask == [kind |-> "free", uri |-> "", method |-> "", inQuery |-> FALSE,
             pc |-> "free", api |-> NoApi, peers |-> {},
             raised |-> Undefined, result |-> NoResult]

Used == {t \in TaskIds : tasks[t].kind # "free"}
nUsed == Cardinality(Used)

Resolving(u) == {t \in TaskIds : tasks[t].pc = "resolving" /\ tasks[t].uri = u}

\* ------------------------------------------------- Uris and redirects
\* texts written without the w3:// scheme
BareTexts == {"i/f", "one/1", "o/o", "p/x", "q/y"}

\* new Uri(text): the canonical form carries the scheme
newUri(text) == IF text \in BareTexts THEN "w3://" \o text ELSE text

\* Uri.equals(a, b)
UriEquals(a, b) == a = b

UriResolverApi == "w3://ens/uri-resolver.core.web3api.eth"

\* a redirect to a Uri (alias) or to a plugin with its manifest
Alias(from, to) ==
  [from |-> from, plugin |-> FALSE, to |-> to, factory |-> "",
   implemented |-> {}]

Plugin(from, factory, implemented) ==
  [from |-> from, plugin |-> TRUE, to |-> "", factory |-> factory,
   implemented |-> implemented]

\* getDefaultRedirects(): the ethereum, ipfs and ens plugins
getDefaultRedirects ==
  << Plugin("w3://ens/ethereum.web3api.eth", "EthereumPlugin", {}),
     Plugin("w3://ens/ipfs.web3api.eth", "IpfsPlugin",
            {"w3://ens/ipfs.web3api.eth", UriResolverApi}),
     Plugin("w3://ens/ens.web3api.eth", "EnsPlugin", {UriResolverApi}) >>

\* the redirects a caller may configure
RedirectPool ==
  { Alias("i/f", "one/1"),
    Alias("o/o", "p/x"),
    Plugin("p/x", "P", {newUri("i/f")}),
    Plugin("q/y", "Q", {}),
    Plugin("w3://ens/ipfs.web3api.eth", "MyIpfs", {UriResolverApi}) }

AbstractApis == {newUri("i/f"), UriResolverApi}

NoImpl == [abstractApi |-> "", redirects |-> <<>>, result |-> <<>>]

NoWalk == [cur |-> "", visited |-> {}]

\* the constructor's `redirects.push(...getDefaultRedirects())`
constructorRedirectsBad(redirects) == getDefaultRedirects \o redirects

constructorRedirects(redirects) == redirects \o getDefaultRedirects

\* client.redirects(): the array of the client's config object
redirects(k) == configs[clients[k].config]

\* ------------------------------------------------- getImplementations
\* implemented.findIndex((uri) => Uri.equals(uri, abstractApi)) > -1
implementedApiBad(redirect, abstractApi) == redirect.implemented # {}

implementedApi(redirect, abstractApi) ==
  \E uri \in redirect.implemented : UriEquals(uri, abstractApi)

\* what an alias from the abstract Uri contributes: new Uri(redirect.to)
aliasImplementationBad(redirect) == newUri(redirect.from)

aliasImplementation(redirect) == newUri(redirect.to)

\* the result after the loop has visited the first n redirects
RECURSIVE getImplementationsUpTo(_, _, _)
getImplementationsUpTo(abstractApi, rs, n) ==
  IF n = 0 THEN <<>>
  ELSE LET result == getImplementationsUpTo(abstractApi, rs, n - 1)
           redirect == rs[n]
       IN IF redirect.plugin
          THEN IF implementedApi(redirect, abstractApi)
               THEN Append(result, newUri(redirect.from))
               ELSE result
          ELSE IF UriEquals(newUri(redirect.from), abstractApi)
               THEN Append(result, aliasImplementation(redirect))
               ELSE result

getImplementations(abstractApi, rs) ==
  getImplementationsUpTo(abstractApi, rs, Len(rs))

\* ------------------------------------------------------------ initial
\* a client built with the default config, nothing called yet
ClientInit ==
  /\ _apiCache = <<>>
  /\ tasks = [t \in TaskIds |-> FreeTask]
  /\ qry = [pc |-> "idle", uri |-> "", ops |-> <<>>, tids |-> <<>>,
            hasData |-> FALSE, methods |-> <<>>, data |-> <<>>,
            errors |-> [defined |-> FALSE, list |-> <<>>]]
  /\ resolveStarted = [u \in Uris |-> 0]
  /\ impl = NoImpl
  /\ walk = [t \in TaskIds |-> NoWalk]

Init ==
  /\ ClientInit
  /\ explicit = <<>>
  /\ configs = <<constructorRedirects(<<>>)>>
  /\ clients = <<[config |-> 1, initial |-> constructorRedirects(<<>>)]>>

\* --------------------------------------------------------- loadWeb3Api
\* this._apiCache.get(uri.uri)
cacheGetBad(m, k) == NoApi

cacheGet(m, k) == IF k \in DOMAIN m THEN m[k] ELSE NoApi

\* loadWeb3Api up to its first suspension: a cached handle is returned,
\* otherwise resolveUri is called and awaited
loadWeb3ApiStart(task, concurrent) ==
  IF cacheGet(_apiCache, task.uri) # NoApi
  THEN [task EXCEPT !.api = cacheGet(_apiCache, task.uri),
                    !.pc = IF task.kind = "load" THEN "done" ELSE "loaded"]
  ELSE [task EXCEPT !.pc = "resolving", !.peers = concurrent]

\* the cache after `if (!api) throw ...; this._apiCache.set(uri.uri, api)`
cacheAfterResolveBad(cache, u, api) == MapSet(cache, u, api)

cacheAfterResolve(cache, u, api) ==
  IF api = NoApi THEN cache ELSE MapSet(cache, u, api)

UnableToResolve(u) == "Unable to resolve Web3API at uri: " \o u

\* invoke's `catch (error) { return { error: error } }`
invokeCatchBad(task, error) ==
  [task EXCEPT !.pc = "done", !.raised = error]

invokeCatch(task, error) ==
  [task EXCEPT !.pc = "done",
               !.result = [data |-> Undefined, error |-> error]]

\* an exception leaving loadWeb3Api: a direct caller sees the rejection,
\* inside invoke it lands in invoke's catch
loadThrows(task, error) ==
  IF task.kind = "load"
  THEN [task EXCEPT !.pc = "done", !.raised = error]
  ELSE [invokeCatch(task, error) EXCEPT !.peers = {}]

loadReturns(task, api) ==
  [task EXCEPT !.api = api,
               !.pc = IF task.kind = "load" THEN "done" ELSE "loaded"]

ResolveOutcomes == {"api", "none", "throw"}

\* the handle built by resolveUri's callbacks (new PluginWeb3Api / new
\* WasmWeb3Api): a new object per attempt, named after the attempt
newApi(t) == t

\* a direct call of loadWeb3Api(uri)
CallLoadWeb3Api(u) ==
  /\ nUsed < MaxTasks
  /\ LET t == nUsed + 1
         started == loadWeb3ApiStart(
                      [FreeTask EXCEPT !.kind = "load", !.uri = u],
                      Resolving(u))
     IN /\ tasks' = [tasks EXCEPT ![t] = started]
        /\ resolveStarted' =
             [resolveStarted EXCEPT
                ![u] = @ + (IF started.pc = "resolving" THEN 1 ELSE 0)]
  /\ UNCHANGED <<_apiCache, qry>>
  /\ UNCHANGED envVars

\* a direct call of invoke({uri, method}), up to `await this.loadWeb3Api`
CallInvoke(u, m) ==
  /\ nUsed < MaxTasks
  /\ LET t == nUsed + 1
         started == loadWeb3ApiStart(
                      [FreeTask EXCEPT !.kind = "invoke", !.uri = u,
                                       !.method = m],
                      Resolving(u))
     IN /\ tasks' = [tasks EXCEPT ![t] = started]
        /\ resolveStarted' =
             [resolveStarted EXCEPT
                ![u] = @ + (IF started.pc = "resolving" THEN 1 ELSE 0)]
  /\ UNCHANGED <<_apiCache, qry>>
  /\ UNCHANGED envVars

\* loadWeb3Api after `await resolveUri(...)`, to its end
ResolveUriCompletes(t, o, error) ==
  /\ tasks[t].pc = "resolving"
  /\ LET u == tasks[t].uri
         api == IF o = "api" THEN newApi(t) ELSE NoApi
     IN /\ _apiCache' = IF o = "throw" THEN _apiCache
                        ELSE cacheAfterResolve(_apiCache, u, api)
        /\ tasks' = [tasks EXCEPT ![t] =
                       IF o = "throw" THEN loadThrows(@, error)
                       ELSE IF api = NoApi
                            THEN loadThrows(@, UnableToResolve(u))
                            ELSE loadReturns(@, api)]
  /\ UNCHANGED <<qry, resolveStarted>>

\* resolveUri settles, with a handle, with none, or by throwing
ResolveUriSettles(t, o) ==
  /\ ResolveUriCompletes(t, o, "ResolveError")
  /\ UNCHANGED envVars

\* --------------------------------------------------------------- invoke
\* what a handle's invoke may do: return a result, or throw
ApiReturns == {[data |-> v, error |-> Undefined] : v \in Values}
              \cup {[data |-> Undefined, error |-> "ApiError"],
                    [data |-> "V1", error |-> "ApiError"]}

\* invoke resumes with the loaded handle and calls api.invoke(options, this)
InvokeResume(t) ==
  /\ tasks[t].pc = "loaded"
  /\ tasks' = [tasks EXCEPT ![t].pc = "invoking", ![t].api = NoApi,
                            ![t].peers = {}]
  /\ UNCHANGED <<_apiCache, qry, resolveStarted>>
  /\ UNCHANGED envVars

\* api.invoke returns r and invoke returns it
ApiInvokeReturns(t, r) ==
  /\ tasks[t].pc = "invoking"
  /\ tasks' = [tasks EXCEPT ![t].pc = "done", ![t].result = r]
  /\ UNCHANGED <<_apiCache, qry, resolveStarted>>
  /\ UNCHANGED envVars

\* api.invoke throws into invoke's catch
ApiInvokeThrows(t) ==
  /\ tasks[t].pc = "invoking"
  /\ tasks' = [tasks EXCEPT ![t] = invokeCatch(@, "ApiThrow")]
  /\ UNCHANGED <<_apiCache, qry, resolveStarted>>
  /\ UNCHANGED envVars

\* ---------------------------------------------------------------- query
\* what createQueryDocument / parseQuery may throw: one Error (it has no
\* length, items holds the error itself), or a non-empty array of errors
Thrown == {[length |-> 0, items |-> <<"SyntaxError">>],
           [length |-> 1, items |-> <<"E1">>],
           [length |-> 2, items |-> <<"E1", "E2">>]}

\* query's `catch (error)`: `error.length ? { errors: error }
\*                                       : { errors: [error] }`
queryCatchBad(q, error) == [q EXCEPT !.pc = "raised"]

queryCatch(q, error) ==
  [q EXCEPT !.pc = "returned",
            !.errors = [defined |-> TRUE,
                        list |-> IF error.length # 0 THEN error.items
                                 ELSE <<error.items[1]>>]]

\* Promise.all over the invocations' promises
promiseAllBad(tids) ==
  IF \E i \in DOMAIN tids : tasks[tids[i]].pc = "done" THEN "fulfilled"
  ELSE "pending"

promiseAll(tids) ==
  IF \E i \in DOMAIN tids : tasks[tids[i]].raised # Undefined THEN "rejected"
  ELSE IF \A i \in DOMAIN tids : tasks[tids[i]].pc = "done" THEN "fulfilled"
  ELSE "pending"

\* the aggregation loop, makeRepeatedUnique and the data map
queryAggregate(q) ==
  LET results == [i \in DOMAIN q.tids |-> tasks[q.tids[i]].result]
      methods == makeRepeatedUnique(q.ops)
      resultDatas == [i \in DOMAIN results |-> results[i].data]
      errors == collectErrors(results, Len(results))
  IN [q EXCEPT !.pc = "returned",
               !.hasData = TRUE,
               !.methods = methods,
               !.data = buildData(methods, resultDatas, Len(methods)),
               !.errors = errorsField(errors)]

\* query({uri, query}) whose document parses into ops: every invocation is
\* started before query suspends on Promise.all
CallQuery(u, ops, cap) ==
  /\ qry.pc = "idle"
  /\ nUsed + Len(ops) <= cap
  /\ LET base == nUsed
         new == (base + 1)..(base + Len(ops))
         started(t) == loadWeb3ApiStart(
                         [FreeTask EXCEPT !.kind = "invoke", !.uri = u,
                                          !.method = ops[t - base],
                                          !.inQuery = TRUE],
                         Resolving(u) \cup ((base + 1)..(t - 1)))
     IN /\ tasks' = [t \in TaskIds |->
                       IF t \in new THEN started(t) ELSE tasks[t]]
        /\ resolveStarted' =
             [resolveStarted EXCEPT
                ![u] = @ + (IF cacheGet(_apiCache, u) = NoApi
                            THEN Len(ops) ELSE 0)]
        /\ qry' = [qry EXCEPT !.pc = "waiting", !.uri = u, !.ops = ops,
                              !.tids = [i \in DOMAIN ops |-> base + i]]
  /\ UNCHANGED _apiCache
  /\ UNCHANGED envVars

\* query whose createQueryDocument or parseQuery throws
QueryParseThrows(u, error) ==
  /\ qry.pc = "idle"
  /\ qry' = queryCatch([qry EXCEPT !.uri = u], error)
  /\ UNCHANGED <<_apiCache, tasks, resolveStarted>>
  /\ UNCHANGED envVars

\* Promise.all settles and query runs to its return
QueryResume ==
  /\ qry.pc = "waiting"
  /\ promiseAll(qry.tids) # "pending"
  /\ qry' = IF promiseAll(qry.tids) = "rejected"
            THEN queryCatch(qry,
                   [length |-> 0,
                    items |-> <<tasks[CHOOSE t \in Used :
                                   tasks[t].inQuery
                                   /\ tasks[t].raised # Undefined].raised>>])
            ELSE queryAggregate(qry)
  /\ UNCHANGED <<_apiCache, tasks, resolveStarted>>
  /\ UNCHANGED envVars

\* -------------------------------------------------------- specification
Next ==
  \/ \E u \in Uris : CallLoadWeb3Api(u)
  \/ \E u \in Uris : CallInvoke(u, "m")
  \/ \E t \in TaskIds, o \in ResolveOutcomes : ResolveUriSettles(t, o)
  \/ \E t \in TaskIds : InvokeResume(t)
  \/ \E t \in TaskIds, r \in ApiReturns : ApiInvokeReturns(t, r)
  \/ \E t \in TaskIds : ApiInvokeThrows(t)
  \/ \E u \in Uris, ops \in SeqsUpTo(Names, MaxOps) :
       CallQuery(u, ops, MaxTasks)
  \/ \E u \in Uris, error \in Thrown : QueryParseThrows(u, error)
  \/ QueryResume

Spec == Init /\ [][Next]_vars

\* one query and its invocations, with no other caller of the client
QueryNext ==
  \/ \E ops \in SeqsUpTo(Names, MaxOps) :
       CallQuery("w3://x", ops, MaxOps)
  \/ \E error \in Thrown : QueryParseThrows("w3://x", error)
  \/ \E t \in TaskIds, o \in ResolveOutcomes : ResolveUriSettles(t, o)
  \/ \E t \in TaskIds : InvokeResume(t)
  \/ \E t \in TaskIds, r \in ApiReturns : ApiInvokeReturns(t, r)
  \/ \E t \in TaskIds : ApiInvokeThrows(t)
  \/ QueryResume

QuerySpec == Init /\ [][QueryNext]_vars

\* one query of at most MaxJoin operations; the event loop runs every
\* continuation that is ready, so a settled Promise.all resumes query
JoinNext ==
  \/ \E ops \in SeqsUpTo(Names, MaxJoin) :
       CallQuery("w3://x", ops, MaxJoin)
  \/ \E error \in Thrown : QueryParseThrows("w3://x", error)
  \/ \E t \in TaskIds, o \in ResolveOutcomes : ResolveUriSettles(t, o)
  \/ \E t \in TaskIds : InvokeResume(t)
  \/ \E t \in TaskIds, r \in ApiReturns : ApiInvokeReturns(t, r)
  \/ \E t \in TaskIds : ApiInvokeThrows(t)
  \/ QueryResume

FairJoinSpec == Init /\ [][JoinNext]_vars /\ WF_vars(QueryResume)

\* ------------------------------------------- construction scenario
\* new Web3ApiClient(config) with the config object c of the caller
Construct(c) ==
  /\ Len(clients) < MaxClients
  /\ c \in DOMAIN configs
  /\ configs' = [configs EXCEPT ![c] = constructorRedirects(@)]
  /\ clients' = Append(clients,
                       [config |-> c, initial |-> configs'[c]])
  /\ UNCHANGED <<_apiCache, tasks, qry, resolveStarted, explicit, impl,
                 walk>>

\* new Web3ApiClient(): the default parameter makes a fresh config
ConstructDefault ==
  /\ Len(clients) < MaxClients
  /\ configs' = Append(configs, constructorRedirects(<<>>))
  /\ clients' = Append(clients,
                       [config |-> Len(configs) + 1,
                        initial |-> constructorRedirects(<<>>)])
  /\ UNCHANGED <<_apiCache, tasks, qry, resolveStarted, explicit, impl,
                 walk>>

\* getImplementations(abstractApi, redirects) on a redirects array
GetImplementations(abstractApi, c) ==
  /\ c \in DOMAIN configs
  /\ impl' = [abstractApi |-> abstractApi, redirects |-> configs[c],
              result |-> getImplementations(abstractApi, configs[c])]
  /\ UNCHANGED <<_apiCache, tasks, qry, resolveStarted, configs, clients,
                 explicit, walk>>

\* the caller has written a config object with its explicit redirects
CfgInit ==
  /\ ClientInit
  /\ explicit \in SeqsUpTo(RedirectPool, MaxRedirects) \cup {<<>>}
  /\ configs = <<explicit>>
  /\ clients = <<>>

CfgNext ==
  \/ \E c \in 1..(MaxClients + 1) : Construct(c)
  \/ ConstructDefault
  \/ \E abstractApi \in AbstractApis, c \in 1..(MaxClients + 1) :
       GetImplementations(abstractApi, c)

CfgSpec == CfgInit /\ [][CfgNext]_vars

\* ----------------------------------------------- resolution scenario
\* the redirects of a client whose Uris x and y may alias each other
AliasPool ==
  { Alias("w3://x", "w3://y"),
    Alias("w3://y", "w3://x"),
    Plugin("w3://y", "Y", {}) }

\* the walk of task t: the Uri now being resolved and the Uris already
\* being resolved in this call chain
walkOf(t) ==
  IF walk[t] = NoWalk
  THEN [cur |-> tasks[t].uri, visited |-> {tasks[t].uri}]
  ELSE walk[t]

\* scan the redirect list in order for a from matching the target:
\* the index of the first match, 0 when there is none
firstMatch(rs, target) ==
  LET hit == {i \in DOMAIN rs : UriEquals(newUri(rs[i].from), target)}
  IN IF hit = {} THEN 0 ELSE CHOOSE i \in hit : \A j \in hit : i <= j

\* the cycle guard: the Uri is already being resolved in this chain
cycleGuardBad(visited, next) == FALSE

cycleGuard(visited, next) == next \in visited

\* resolution goes on with the Uri next, unless the guard stops it
resolveFurther(t, next) ==
  IF cycleGuard(walkOf(t).visited, next)
  THEN /\ ResolveUriCompletes(t, "throw", "ResolutionCycle")
       /\ walk' = [walk EXCEPT ![t] = NoWalk]
  ELSE /\ walk' = [walk EXCEPT ![t] =
                     [cur |-> next,
                      visited |-> walkOf(t).visited \cup {next}]]
       /\ UNCHANGED <<_apiCache, tasks, qry, resolveStarted>>

\* step 1: the first matching redirect is an alias, recurse on its to
ResolveAlias(t) ==
  /\ tasks[t].pc = "resolving"
  /\ LET i == firstMatch(redirects(1), walkOf(t).cur)
     IN /\ i # 0
        /\ ~redirects(1)[i].plugin
        /\ resolveFurther(t, newUri(redirects(1)[i].to))
  /\ UNCHANGED <<configs, clients, explicit, impl>>

\* step 2: the first matching redirect is a plugin binding, which is
\* instantiated and ends the resolution
ResolvePlugin(t) ==
  /\ tasks[t].pc = "resolving"
  /\ LET i == firstMatch(redirects(1), walkOf(t).cur)
     IN /\ i # 0
        /\ redirects(1)[i].plugin
  /\ ResolveUriCompletes(t, "api", "")
  /\ walk' = [walk EXCEPT ![t] = NoWalk]
  /\ UNCHANGED <<configs, clients, explicit, impl>>

\* step 3: no direct match, a resolver implementation answers with a
\* handle, with nothing, or by failing
ResolveDelegated(t, o) ==
  /\ tasks[t].pc = "resolving"
  /\ firstMatch(redirects(1), walkOf(t).cur) = 0
  /\ ResolveUriCompletes(t, o, "ResolveError")
  /\ walk' = [walk EXCEPT ![t] = NoWalk]
  /\ UNCHANGED <<configs, clients, explicit, impl>>

\* step 3: no direct match, a resolver implementation answers with a
\* further Uri to resolve
ResolveDelegatedUri(t, next) ==
  /\ tasks[t].pc = "resolving"
  /\ firstMatch(redirects(1), walkOf(t).cur) = 0
  /\ resolveFurther(t, next)
  /\ UNCHANGED <<configs, clients, explicit, impl>>

\* a step of the resolution of task t
ResolveStep(t) ==
  \/ ResolveAlias(t)
  \/ ResolvePlugin(t)
  \/ \E o \in ResolveOutcomes : ResolveDelegated(t, o)
  \/ \E next \in Uris : ResolveDelegatedUri(t, next)

\* one client, built from a config with the explicit redirects
ResolveInit ==
  /\ ClientInit
  /\ explicit \in SeqsUpTo(AliasPool, MaxRedirects) \cup {<<>>}
  /\ configs = <<constructorRedirects(explicit)>>
  /\ clients = <<[config |-> 1, initial |-> constructorRedirects(explicit)]>>

ResolveNext ==
  \/ \E u \in Uris : nUsed < MaxWalks /\ CallLoadWeb3Api(u)
  \/ \E u \in Uris : nUsed < MaxWalks /\ CallInvoke(u, "m")
  \/ \E t \in TaskIds : ResolveAlias(t)
  \/ \E t \in TaskIds : ResolvePlugin(t)
  \/ \E t \in TaskIds, o \in ResolveOutcomes : ResolveDelegated(t, o)
  \/ \E t \in TaskIds, next \in Uris : ResolveDelegatedUri(t, next)
  \/ \E t \in TaskIds : InvokeResume(t)
  \/ \E t \in TaskIds, r \in ApiReturns : ApiInvokeReturns(t, r)
  \/ \E t \in TaskIds : ApiInvokeThrows(t)

\* resolveUri does not wait on anything between two redirect hops: a
\* resolution that can take a step takes one
FairResolveSpec ==
  ResolveInit /\ [][ResolveNext]_vars
  /\ \A t \in TaskIds : WF_vars(ResolveStep(t))

TypeOK ==
  /\ DOMAIN _apiCache \subseteq Uris
  /\ \A t \in TaskIds : tasks[t].pc \in
       {"free", "resolving", "loaded", "invoking", "done"}
  /\ qry.pc \in {"idle", "waiting", "returned"}

\* ---------------------------------------------------------------- claims
\* the outcome a caller of loadWeb3Api observes: the handle or the error
LoadSettled(t) ==
  \/ tasks[t].kind = "load" /\ tasks[t].pc = "done"
  \/ tasks[t].kind = "invoke" /\ tasks[t].pc = "loaded"

LoadOutcome(t) == <<tasks[t].api, tasks[t].raised>>

\* the result of the i-th invocation of the query
OpResult(i) == tasks[qry.tids[i]].result

Aggregated == qry.pc = "returned" /\ qry.hasData

\* C1: single-flight -- in every reachable state at most one resolveUri
\* attempt per Uri is in flight, however many loadWeb3Api calls miss
C1_SingleFlight ==
  \A u \in Uris : Cardinality(Resolving(u)) <= 1

\* C2: loadWeb3Api calls for the same uncached Uri whose resolutions
\* overlapped observe the same outcome: the same handle or the same error
C2_SameOutcome ==
  \A t \in TaskIds : \A s \in tasks[t].peers :
    (LoadSettled(t) /\ LoadSettled(s)) => LoadOutcome(t) = LoadOutcome(s)

C4_FirstResolutionWins ==
  [][\A u \in DOMAIN _apiCache :
       u \in DOMAIN _apiCache' /\ _apiCache'[u] = _apiCache[u]]_vars

\* C5: invoke never raises -- when resolution throws, no handle is
\* resolved, or the handle's invoke throws, invoke completes with a
\* result whose error field carries the failure and whose data is unset
C5_InvokeNeverRaises ==
  [][\A t \in TaskIds :
       /\ tasks'[t].kind = "invoke" => tasks'[t].raised = Undefined
       /\ ( /\ tasks[t].kind = "invoke"
            /\ tasks[t].pc = "resolving"
            /\ tasks'[t].pc # "resolving" )
          => \/ /\ tasks'[t].pc = "loaded"
                /\ tasks'[t].api = newApi(t)
             \/ /\ tasks'[t].pc = "done"
                /\ tasks'[t].result.data = Undefined
                /\ tasks'[t].result.error \in
                     {"ResolveError", UnableToResolve(tasks[t].uri)}
       /\ ( /\ tasks[t].pc = "invoking"
            /\ tasks'[t].pc # "invoking" )
          => /\ tasks'[t].pc = "done"
             /\ \/ tasks'[t].result \in ApiReturns
                \/ tasks'[t].result =
                     [data |-> Undefined, error |-> "ApiThrow"]
    ]_vars

\* an invoke whose handle threw, returned as a result with the error
C5_Witness ==
  \E t \in TaskIds :
    /\ tasks[t].kind = "invoke" /\ tasks[t].pc = "done"
    /\ tasks[t].result = [data |-> Undefined, error |-> "ApiThrow"]
    /\ \E s \in TaskIds :
         /\ tasks[s].kind = "invoke" /\ tasks[s].pc = "done"
         /\ tasks[s].result.error = UnableToResolve(tasks[s].uri)

\* the i-th operation is the k-th occurrence of its name, in list order
Occurrence(names, i) ==
  Cardinality({j \in 1..i : names[j] = names[i]})

\* the name the i-th operation is listed under: name, name_1, name_2, ...
SuffixedName(names, i) ==
  IF Occurrence(names, i) = 1 THEN names[i]
  ELSE names[i] \o "_" \o ToString(Occurrence(names, i) - 1)

Failed(i) == OpResult(i).error # Undefined

\* the errors of the failed operations, in operation order
RECURSIVE FailedErrors(_)
FailedErrors(n) ==
  IF n = 0 THEN <<>>
  ELSE IF Failed(n) THEN Append(FailedErrors(n - 1), OpResult(n).error)
       ELSE FailedErrors(n - 1)

\* C6: partial-failure isolation -- whatever subset of the operations
\* fails, every successful operation's value is in data under its own
\* suffixed name exactly as its invocation returned it, and errors holds
\* exactly one error per failed operation, in operation order
C6_PartialFailureIsolation ==
  Aggregated =>
    /\ \A i \in DOMAIN qry.ops :
         ~Failed(i) =>
           /\ SuffixedName(qry.ops, i) \in DOMAIN qry.data
           /\ qry.data[SuffixedName(qry.ops, i)] = OpResult(i).data
    /\ qry.errors.list = FailedErrors(Len(qry.ops))

\* C7: the result mapping never overwrites a value -- the keys produced
\* for the operations are pairwise distinct and data holds one entry per
\* operation
C7_KeysDistinct ==
  Aggregated =>
    /\ \A i, j \in DOMAIN qry.methods :
         i # j => qry.methods[i] # qry.methods[j]
    /\ Cardinality(DOMAIN qry.data) = Len(qry.ops)

AllInvocationsDone ==
  \A i \in DOMAIN qry.tids : tasks[qry.tids[i]].pc = "done"

\* C9: join-all -- query starts one invocation per parsed operation,
\* returns its aggregate only when every one of them has completed, with
\* data or with error, and once all have completed it does return
C9_JoinAll ==
  /\ [](qry.pc \in {"waiting", "returned"} =>
          /\ Len(qry.tids) = Len(qry.ops)
          /\ \A i \in DOMAIN qry.ops :
               /\ tasks[qry.tids[i]].kind = "invoke"
               /\ tasks[qry.tids[i]].method = qry.ops[i]
               /\ \A j \in DOMAIN qry.ops :
                    i # j => qry.tids[i] # qry.tids[j])
  /\ [](qry.pc = "returned" /\ qry.ops # <<>> =>
          /\ AllInvocationsDone
          /\ qry.hasData)
  /\ ((qry.pc = "waiting" /\ AllInvocationsDone) ~> (qry.pc = "returned"))

\* a query returned after a failed sibling and a successful one both ran
\* to completion
C9_Witness ==
  /\ Aggregated
  /\ Len(qry.ops) = 2
  /\ Failed(1) /\ ~Failed(2)
  /\ AllInvocationsDone

\* C10: errors is absent exactly when every invocation returned without
\* an error, and is a non-empty list as soon as one invocation failed
C10_ErrorsAbsentIffAllSucceeded ==
  Aggregated =>
    /\ ~qry.errors.defined <=> (\A i \in DOMAIN qry.ops : ~Failed(i))
    /\ qry.errors.defined => Len(qry.errors.list) > 0

\* a query whose two invocations both succeeded, returned without errors
C10_Witness ==
  /\ Aggregated
  /\ Len(qry.ops) = 2
  /\ \A i \in DOMAIN qry.ops : ~Failed(i)
  /\ ~qry.errors.defined

\* C11: query never raises -- when createQueryDocument or parseQuery
\* throws, query returns a result without data whose errors list holds
\* the thrown error, a thrown list of errors being the errors list itself
C11_QueryNeverRaises ==
  [][/\ qry'.pc \in {"idle", "waiting", "returned"}
     /\ (qry.pc = "idle" /\ qry'.pc \notin {"idle", "waiting"})
          => /\ qry'.pc = "returned"
             /\ ~qry'.hasData
             /\ qry'.data = <<>>
             /\ qry'.errors.defined
             /\ \E error \in Thrown : qry'.errors.list = error.items
    ]_vars

\* a query whose parse threw a list of two errors, returned as its errors
C11_Witness ==
  /\ qry.pc = "returned"
  /\ ~qry.hasData
  /\ qry.errors = [defined |-> TRUE, list |-> <<"E1", "E2">>]

\* C12: an invoke result never has both data and error populated
C12_DataXorError ==
  \A t \in TaskIds :
    (tasks[t].kind = "invoke" /\ tasks[t].pc = "done")
      => ~(tasks[t].result.data # Undefined
           /\ tasks[t].result.error # Undefined)

\* C17: cache hit -- a loadWeb3Api call for a Uri the cache holds a handle
\* for gets that very handle, starts no resolveUri and leaves the cache
\* unchanged
C17_CacheHit ==
  [][\A t \in TaskIds :
       ( /\ tasks[t].pc = "free"
         /\ tasks'[t].pc # "free"
         /\ tasks'[t].uri \in DOMAIN _apiCache )
       => /\ tasks'[t].api = _apiCache[tasks'[t].uri]
          /\ tasks'[t].pc = IF tasks'[t].kind = "load" THEN "done"
                            ELSE "loaded"
          /\ tasks'[t].raised = Undefined
          /\ resolveStarted' = resolveStarted
          /\ _apiCache' = _apiCache
    ]_vars

\* a second loadWeb3Api of a cached Uri returned the handle of the first
C17_Witness ==
  /\ tasks[1].kind = "load" /\ tasks[1].uri = "w3://x"
  /\ tasks[2].kind = "load" /\ tasks[2].uri = "w3://x"
  /\ tasks[2].pc = "done" /\ tasks[2].api = newApi(1)
  /\ cacheGet(_apiCache, "w3://x") = newApi(1)
  /\ resolveStarted["w3://x"] = 1

\* C18: whatever the order in which the invocations complete, the i-th
\* key of the result belongs to the i-th operation and holds that
\* operation's own data, and the errors are in operation order
C18_OrderIndependent ==
  Aggregated =>
    /\ \A i \in DOMAIN qry.ops :
         /\ qry.methods[i] = SuffixedName(qry.ops, i)
         /\ qry.methods[i] \in DOMAIN qry.data
         /\ qry.data[qry.methods[i]] = OpResult(i).data
    /\ qry.errors.list = FailedErrors(Len(qry.ops))


\* ------------------------------------------------------------ C13, C14
\* the redirect contributes an implementation of abstractApi
Matches(redirect, abstractApi) ==
  IF redirect.plugin THEN abstractApi \in redirect.implemented
  ELSE newUri(redirect.from) = abstractApi

\* the Uri a matching redirect stands for
Concrete(redirect) ==
  IF redirect.plugin THEN newUri(redirect.from) ELSE newUri(redirect.to)

\* the alias rule as the specification words it: the alias's to Uri
\* counts only when it is the from of an implementing plugin binding
StatedMatches(redirect, abstractApi, rs) ==
  IF redirect.plugin THEN abstractApi \in redirect.implemented
  ELSE \E j \in DOMAIN rs :
         /\ rs[j].plugin
         /\ newUri(rs[j].from) = newUri(redirect.to)
         /\ abstractApi \in rs[j].implemented

\* the Uris of the entries of rs that pass Test, in table order
ConcreteOf(rs, Test(_)) ==
  LET sel == SelectSeq(rs, Test)
  IN [i \in 1..Len(sel) |-> Concrete(sel[i])]

ImplCalled == impl.abstractApi # ""

\* C13 as stated: the result is, in table order, the from of every
\* implementing plugin binding and the to of an alias only when that to
\* is the from of an implementing binding
C13_AliasOnlyToImplementer ==
  ImplCalled =>
    LET Test(redirect) ==
          StatedMatches(redirect, impl.abstractApi, impl.redirects)
    IN impl.result = ConcreteOf(impl.redirects, Test)

\* C13 amended: the result is, in table order, the from of every plugin
\* binding whose implemented set contains the abstract Uri and the to of
\* every alias whose from is the abstract Uri; empty when none match
C13_ImplementationsInOrder ==
  ImplCalled =>
    LET Test(redirect) == Matches(redirect, impl.abstractApi)
    IN /\ impl.result = ConcreteOf(impl.redirects, Test)
       /\ (\A i \in DOMAIN impl.redirects : ~Test(impl.redirects[i]))
            => impl.result = <<>>

\* an alias from the abstract Uri to a Uri no binding provides, next to
\* an implementing plugin and a plugin that implements something else
C13_Witness ==
  /\ impl.abstractApi = newUri("i/f")
  /\ Len(impl.redirects) >= 5
  /\ impl.redirects[1] = Plugin("p/x", "P", {newUri("i/f")})
  /\ impl.redirects[2] = Alias("i/f", "one/1")
  /\ impl.result = <<newUri("p/x"), newUri("one/1")>>

\* the indices of the matching redirects
MatchingAt(rs, abstractApi) ==
  {i \in DOMAIN rs : Matches(rs[i], abstractApi)}

\* C14: one entry per matching redirect, in table order: an alias from
\* the abstract Uri gives its to, a plugin implementing the abstract Uri
\* gives its from, and every other redirect gives nothing
C14_OneEntryPerMatch ==
  ImplCalled =>
    LET hit == MatchingAt(impl.redirects, impl.abstractApi)
        rank(i) == Cardinality({j \in hit : j <= i})
    IN /\ Len(impl.result) = Cardinality(hit)
       /\ \A i \in hit :
            impl.result[rank(i)] =
              IF impl.redirects[i].plugin
              THEN newUri(impl.redirects[i].from)
              ELSE newUri(impl.redirects[i].to)

\* a matching alias and a matching plugin before plugins that do not match
C14_Witness ==
  /\ impl.abstractApi = newUri("i/f")
  /\ impl.redirects = << Alias("i/f", "one/1"),
                         Plugin("p/x", "P", {newUri("i/f")}) >>
                       \o getDefaultRedirects
  /\ impl.result = <<newUri("one/1"), newUri("p/x")>>


\* ------------------------------------------------------------ C15, C19
\* the redirects the caller wrote into the config object of client k
ExplicitOf(k) == IF clients[k].config = 1 THEN explicit ELSE <<>>

\* how many times redirect d occurs in the table rs
Times(rs, d) == Cardinality({i \in DOMAIN rs : rs[i] = d})

\* C15: right after its construction a client's redirect list is the
\* caller's explicit redirects, in their order, followed by the built-in
\* default redirects
C15_ExplicitThenDefaults ==
  \A k \in DOMAIN clients :
    clients[k].initial = ExplicitOf(k) \o getDefaultRedirects

\* C19: in every client's redirect list each built-in default occurs
\* exactly once, and the list is still the one the client had when it
\* was constructed
C19_DefaultsOnceAndStable ==
  \A k \in DOMAIN clients :
    /\ \A i \in DOMAIN getDefaultRedirects :
         Times(redirects(k), getDefaultRedirects[i]) = 1
    /\ redirects(k) = clients[k].initial


\* ------------------------------------------------------------------ C16
\* x aliases to y and y aliases to x in the client's redirect table
AliasCycle ==
  LET rs == redirects(1)
      ix == firstMatch(rs, "w3://x")
      iy == firstMatch(rs, "w3://y")
  IN /\ ix # 0 /\ ~rs[ix].plugin /\ newUri(rs[ix].to) = "w3://y"
     /\ iy # 0 /\ ~rs[iy].plugin /\ newUri(rs[iy].to) = "w3://x"

\* the call of task t has ended with the ResolutionCycle failure
EndedWithCycle(t) ==
  /\ tasks[t].pc = "done"
  /\ tasks[t].api = NoApi
  /\ IF tasks[t].kind = "load" THEN tasks[t].raised = "ResolutionCycle"
     ELSE /\ tasks[t].raised = Undefined
          /\ tasks[t].result =
               [data |-> Undefined, error |-> "ResolutionCycle"]

\* C16: when x and y alias each other, every resolution that
\* loadWeb3Api or invoke starts ends, and ends with ResolutionCycle
C16_CycleDetected ==
  \A t \in TaskIds :
    (AliasCycle /\ tasks[t].pc = "resolving") ~> EndedWithCycle(t)

\* an invoke on x, with x and y aliasing each other, has ended with
\* ResolutionCycle and nothing was cached
C16_Witness ==
  /\ AliasCycle
  /\ tasks[1].kind = "invoke"
  /\ tasks[1].uri = "w3://x"
  /\ EndedWithCycle(1)
  /\ _apiCache = <<>>

====
